---- MODULE Spec2Model ----
(***************************************************************************)
(* A model of autostore: the relational store written by write.energy and  *)
(* write.stationary_point, the insert-time hooks populate_geometry_hash    *)
(* and generate_stationary_inchi, and the calculation hash schemes.        *)
(*                                                                         *)
(* A table is a sequence of rows; a row's primary key is its position      *)
(* (SQLite assigns max(rowid)+1 and the program never deletes a row).      *)
(* The tables hold the committed state: an action is one whole call, from  *)
(* opening the session to the commit or the error that ends it.  Under     *)
(* WriterSpec two calls run at once and a call is taken one statement at a *)
(* time.                                                                   *)
(***************************************************************************)
EXTENDS Integers, Sequences, FiniteSets, TLC

VARIABLES geometry, calculation, energy, stationary_point, identity,
          stationary_identity_link, last, nEnergy, nStationary, nUpdates,
          created, writers, lock, objs, results, registry, registered

\* created: the tables exist in the store the engine connects to.
\* writers: the concurrent write.stationary_point calls, each with its
\* position in the call; lock: the writer whose transaction holds the
\* store's write lock, 0 for none.
writerVars == <<writers, lock>>

storeVars == <<geometry, calculation, energy, stationary_point, identity,
               stationary_identity_link, last, nEnergy, nStationary, nUpdates,
               created, writerVars>>

\* objs: two Calculation objects; results: for each object the last hash
\* computed, with its scheme and the object as it was when the call began;
\* registry: the hash registry; registered: the outcome of the last register.
hashVars == <<objs, results, registry, registered>>

vars == <<storeVars, hashVars>>

(***************************************************************************)
(* Bounds.                                                                 *)
(***************************************************************************)
\* Rows a table may hold.
MaxRows == 2
\* Strings a keywords mapping may hold, nested mappings included.
MaxLeaves == 2
\* Under WriterSpec: calls a writer makes.
MaxCalls == 1
\* Under GeometrySpec: rows the geometry table may hold, and updates of them.
MaxGeometryRows == 1
MaxUpdates == 2

(***************************************************************************)
(* Inputs.                                                                 *)
(***************************************************************************)
\* The hash column of a row whose hash was never populated.
NULL == <<>>

\* qcio structures: two waters that differ in their coordinates, and H2.
Structures ==
    { [symbols |-> <<"O", "H", "H">>, geometry |-> "bohrA", charge |-> 0, multiplicity |-> 1],
      [symbols |-> <<"O", "H", "H">>, geometry |-> "bohrB", charge |-> 0, multiplicity |-> 1],
      [symbols |-> <<"H", "H">>, geometry |-> "bohrA", charge |-> 0, multiplicity |-> 1] }

Energies == {-5, -3}

\* qcio Results: input_data is a ProgramInput, with a structure and a model,
\* or another input type (a FileInput), with neither.
NoStructure == [symbols |-> <<>>, geometry |-> "none", charge |-> 0, multiplicity |-> 1]

Results ==
    [kind : {"ProgramInput"}, structure : Structures, method : {"gfn2"},
     basis : {"none"}, program : {"crest"}, program_version : {"3.0.2"},
     energy : Energies]
    \cup
    [kind : {"FileInput"}, structure : {NoStructure}, method : {"none"},
     basis : {"none"}, program : {"crest"}, program_version : {"3.0.2"},
     energy : Energies]

Orders == {-1, 1}

\* Where the post-insert hook is made to fail: the toolkit (to_mol / inchi),
\* or a store operation of the hook's own session.
FailurePoints ==
    {"none", "toolkit", "identity_query", "identity_flush", "link_query", "link_flush"}

(***************************************************************************)
(* The structure toolkit.                                                  *)
(***************************************************************************)
\* automol geom.hash: a content hash of (symbols, coordinates, charge, spin).
geometry_hash(symbols, coordinates, charge, spin) ==
    <<"sha", symbols, coordinates, charge, spin>>

\* automol.mol.inchi(geo_row.to_mol()): the identifier depends on the
\* molecule, not on the coordinates two conformations of it differ in.
inchi(geo_row) ==
    IF geo_row.symbols = <<"O", "H", "H">> THEN "InChI=1S/H2O/h1H2"
    ELSE IF geo_row.symbols = <<"H", "H">> THEN "InChI=1S/H2/h1H"
    ELSE "InChI=1S/H2O2/c1-2/h1-2H"

\* qc.structure.geometry: bohr to angstrom, multiplicity to spin (2S).
ToAngstrom(g) == IF g = "bohrA" THEN "angA" ELSE "angB"

qc_structure_geometry(structure) ==
    [symbols |-> structure.symbols, coordinates |-> ToAngstrom(structure.geometry),
     charge |-> structure.charge, spin |-> structure.multiplicity - 1]

(***************************************************************************)
(* Rows.                                                                   *)
(***************************************************************************)
IsProgramInput_any(res) == TRUE

\* isinstance(res.input_data, ProgramInput)
IsProgramInput(res) == res.kind = "ProgramInput"

GeometryRow_from_results(res) ==
    LET geo == qc_structure_geometry(res.structure)
    IN  [symbols |-> geo.symbols, coordinates |-> geo.coordinates,
         charge |-> geo.charge, spin |-> geo.spin, hash |-> NULL]

CalculationRow_from_results(res) ==
    [program |-> res.program, version |-> res.program_version,
     method |-> res.method, basis |-> res.basis]

populate_geometry_hash_null(target) == target

\* The before_insert listener of GeometryRow.
populate_geometry_hash(target) ==
    [target EXCEPT !.hash = geometry_hash(target.symbols, target.coordinates,
                                           target.charge, target.spin)]

\* How often populate_geometry_hash is called for one GeometryRow event: it
\* is registered once, for "before_insert".
GeometryListenerCalls(eventName) == IF eventName = "before_insert" THEN 1 ELSE 0

GeometryListeners_none(eventName, target) == target

\* The listeners the ORM runs for a GeometryRow event.
GeometryListeners(eventName, target) ==
    IF eventName = "before_insert" THEN populate_geometry_hash(target) ELSE target

\* INSERT of a row: the primary key is the next rowid.
Insert(table, row) == Append(table, row)

(***************************************************************************)
(* The store as one value: what a connection sees inside its transaction.  *)
(***************************************************************************)
Db ==
    [geometry |-> geometry, calculation |-> calculation, energy |-> energy,
     stationary_point |-> stationary_point, identity |-> identity,
     stationary_identity_link |-> stationary_identity_link]

EmptyDb ==
    [geometry |-> <<>>, calculation |-> <<>>, energy |-> <<>>,
     stationary_point |-> <<>>, identity |-> <<>>,
     stationary_identity_link |-> <<>>]

NoResults == [kind |-> "none"]

(***************************************************************************)
(* generate_stationary_inchi, the after_insert listener of                 *)
(* StationaryPointRow.                                                     *)
(***************************************************************************)
IdentityLookup_none(table, algorithm, identifier) == 0

\* session.query(IdentityRow).filter_by(algorithm, identifier).first():
\* the id of the first matching row, 0 for None.
IdentityLookup(table, algorithm, identifier) ==
    LET hits == {i \in 1..Len(table) :
                    table[i].algorithm = algorithm /\ table[i].identifier = identifier}
    IN  IF hits = {} THEN 0 ELSE CHOOSE i \in hits : \A j \in hits : i <= j

LinkExists_never(table, stationary_id, identity_id) == FALSE

\* session.query(StationaryIdentityLink).filter_by(stationary_id, identity_id).first()
LinkExists(table, stationary_id, identity_id) ==
    \E i \in 1..Len(table) :
        table[i].stationary_id = stationary_id /\ table[i].identity_id = identity_id

\* The composite primary key of stationary_identity_link: a second row with
\* the same pair is refused by the store (IntegrityError at the flush).
PrimaryKeyConflict(table, stationary_id, identity_id) ==
    \E i \in 1..Len(table) :
        table[i].stationary_id = stationary_id /\ table[i].identity_id = identity_id

\* db: what the connection sees when the listener starts; base: what a
\* rollback of the connection's transaction restores. The listener's session
\* is bound to the connection and begins on its first store operation; its
\* rollback() rolls back the connection's transaction, its commit() leaves a
\* transaction it joined to the session that began it.
\* The result: db as the connection sees it afterwards, failed (the except
\* branch ran), began (the session had touched the connection), and
\* addedIdentity (a new IdentityRow had been flushed).
generate_stationary_inchi(db, base, target_id, fp) ==
    LET target == db.stationary_point[target_id]
        geo_row == db.geometry[target.geometry_id]
        Failed(began, added) ==
            [db |-> IF began THEN base ELSE db, failed |-> TRUE,
             began |-> began, addedIdentity |-> added]
        Done(d, added) ==
            [db |-> d, failed |-> FALSE, began |-> TRUE, addedIdentity |-> added]
    IN  IF fp = "toolkit" THEN Failed(FALSE, FALSE)
        ELSE
        LET inchi_string == inchi(geo_row)
        IN  IF fp = "identity_query" THEN Failed(TRUE, FALSE)
            ELSE
            LET found == IdentityLookup(db.identity, "InChI", inchi_string)
            IN  IF found = 0 /\ fp = "identity_flush" THEN Failed(TRUE, FALSE)
                ELSE
                LET added == (found = 0)
                    db1 == IF added
                           THEN [db EXCEPT !.identity =
                                    Insert(@, [type |-> "stereoisomer",
                                               algorithm |-> "InChI",
                                               identifier |-> inchi_string])]
                           ELSE db
                    identity_id == IF added THEN Len(db1.identity) ELSE found
                IN  IF fp = "link_query" THEN Failed(TRUE, added)
                    ELSE IF LinkExists(db1.stationary_identity_link, target_id, identity_id)
                    THEN Done(db1, added)
                    ELSE IF fp = "link_flush"
                            \/ PrimaryKeyConflict(db1.stationary_identity_link,
                                                  target_id, identity_id)
                    THEN Failed(TRUE, added)
                    ELSE Done([db1 EXCEPT !.stationary_identity_link =
                                  Insert(@, [stationary_id |-> target_id,
                                             identity_id |-> identity_id])],
                              added)

(***************************************************************************)
(* The write orchestrators.                                                *)
(***************************************************************************)
SetDb(d) ==
    /\ geometry' = d.geometry
    /\ calculation' = d.calculation
    /\ energy' = d.energy
    /\ stationary_point' = d.stationary_point
    /\ identity' = d.identity
    /\ stationary_identity_link' = d.stationary_identity_link

EnergyFlush_dedup(db, res) ==
    LET geo_row == GeometryListeners("before_insert", GeometryRow_from_results(res))
        calc_row == CalculationRow_from_results(res)
        same == {i \in 1..Len(db.geometry) : db.geometry[i].hash = geo_row.hash}
        g == IF same = {} THEN Insert(db.geometry, geo_row) ELSE db.geometry
        gid == IF same = {} THEN Len(g) ELSE CHOOSE i \in same : TRUE
        c == Insert(db.calculation, calc_row)
    IN  [db EXCEPT !.geometry = g, !.calculation = c,
                   !.energy = Insert(@, [geometry_id |-> gid,
                                         calculation_id |-> Len(c),
                                         value |-> res.energy])]

\* What the unit of work of write.energy inserts: the geometry (its hash
\* populated by the listener), the calculation, then the energy row that
\* refers to both.
EnergyFlush(db, res) ==
    LET geo_row == GeometryListeners("before_insert", GeometryRow_from_results(res))
        calc_row == CalculationRow_from_results(res)
        g == Insert(db.geometry, geo_row)
        c == Insert(db.calculation, calc_row)
    IN  [db EXCEPT !.geometry = g, !.calculation = c,
                   !.energy = Insert(@, [geometry_id |-> Len(g),
                                         calculation_id |-> Len(c),
                                         value |-> res.energy])]

\* On a store whose tables are gone the first INSERT of a flush raises (no
\* such table) and ends the flush.  If it is the geometry's, the listener
\* has run for the row and its INSERT was issued; if it is the
\* calculation's, neither has happened.
FailedFlushInserts == {0, 1}

\* write.energy(res, db).  last keeps, with the call and its outcome, hashed:
\* the calls of populate_geometry_hash the flush made, and inserted: the
\* INSERTs of a geometry row it issued.
WriteEnergy(res) ==
    /\ Len(geometry) < MaxRows
    /\ IF ~IsProgramInput(res)
       THEN /\ last' = [op |-> "energy", raised |-> "NotImplementedError", res |-> res,
                        fp |-> "none", hookFailed |-> FALSE, hookBegan |-> FALSE,
                        hookAddedIdentity |-> FALSE, target |-> 0, pre |-> Db,
                        hashed |-> 0, inserted |-> 0]
            /\ UNCHANGED <<geometry, calculation, energy, stationary_point, identity,
                           stationary_identity_link, nEnergy, nStationary, nUpdates, hashVars, writerVars, created>>
       ELSE IF ~created
       THEN /\ \E n \in FailedFlushInserts :
                last' = [op |-> "energy", raised |-> "OperationalError", res |-> res,
                        fp |-> "none", hookFailed |-> FALSE, hookBegan |-> FALSE,
                        hookAddedIdentity |-> FALSE, target |-> 0, pre |-> Db,
                        hashed |-> n * GeometryListenerCalls("before_insert"),
                        inserted |-> n]
            /\ UNCHANGED <<geometry, calculation, energy, stationary_point, identity,
                           stationary_identity_link, nEnergy, nStationary, nUpdates, hashVars, writerVars, created>>
       ELSE /\ SetDb(EnergyFlush(Db, res))
            /\ last' = [op |-> "energy", raised |-> "none", res |-> res,
                        fp |-> "none", hookFailed |-> FALSE, hookBegan |-> FALSE,
                        hookAddedIdentity |-> FALSE, target |-> 0, pre |-> Db,
                        hashed |-> GeometryListenerCalls("before_insert"), inserted |-> 1]
            /\ nEnergy' = nEnergy + 1
            /\ UNCHANGED <<nStationary, nUpdates, hashVars, writerVars, created>>

\* What the unit of work of write.stationary_point inserts before the
\* after_insert listener runs: geometry, calculation, stationary point.
StationaryFlush(db, res, order) ==
    LET geo_row == GeometryListeners("before_insert", GeometryRow_from_results(res))
        calc_row == CalculationRow_from_results(res)
        g == Insert(db.geometry, geo_row)
        c == Insert(db.calculation, calc_row)
    IN  [db EXCEPT !.geometry = g, !.calculation = c,
                   !.stationary_point = Insert(@, [geometry_id |-> Len(g),
                                                   calculation_id |-> Len(c),
                                                   order |-> order])]

\* write.stationary_point(res, db, order=order). The listener runs inside the
\* flush of session.commit(), on the connection of the transaction that holds
\* the three inserts. When its rollback() has ended that transaction, the
\* commit of the outer session finds it inactive and raises.
WriteStationaryPoint(res, order, fp) ==
    /\ Len(geometry) < MaxRows
    /\ IF ~IsProgramInput(res)
       THEN /\ last' = [op |-> "stationary_point", raised |-> "NotImplementedError",
                        res |-> res, fp |-> fp, hookFailed |-> FALSE, hookBegan |-> FALSE,
                        hookAddedIdentity |-> FALSE, target |-> 0, pre |-> Db,
                        hashed |-> 0, inserted |-> 0]
            /\ UNCHANGED <<geometry, calculation, energy, stationary_point, identity,
                           stationary_identity_link, nEnergy, nStationary, nUpdates, hashVars, writerVars, created>>
       ELSE IF ~created
       THEN /\ \E n \in FailedFlushInserts :
                last' = [op |-> "stationary_point", raised |-> "OperationalError",
                        res |-> res, fp |-> fp, hookFailed |-> FALSE, hookBegan |-> FALSE,
                        hookAddedIdentity |-> FALSE, target |-> 0, pre |-> Db,
                        hashed |-> n * GeometryListenerCalls("before_insert"),
                        inserted |-> n]
            /\ UNCHANGED <<geometry, calculation, energy, stationary_point, identity,
                           stationary_identity_link, nEnergy, nStationary, nUpdates, hashVars, writerVars, created>>
       ELSE LET flushed == StationaryFlush(Db, res, order)
                target_id == Len(flushed.stationary_point)
                h == generate_stationary_inchi(flushed, Db, target_id, fp)
                rolledBack == h.failed /\ h.began
            IN  /\ SetDb(h.db)
                /\ last' = [op |-> "stationary_point",
                            raised |-> IF rolledBack THEN "InvalidRequestError" ELSE "none",
                            res |-> res, fp |-> fp, hookFailed |-> h.failed,
                            hookBegan |-> h.began,
                            hookAddedIdentity |-> h.addedIdentity,
                            target |-> target_id, pre |-> Db,
                            hashed |-> GeometryListenerCalls("before_insert"), inserted |-> 1]
                /\ nStationary' = IF rolledBack THEN nStationary ELSE nStationary + 1
                /\ UNCHANGED <<nEnergy, nUpdates, hashVars, writerVars, created>>

\* generate_stationary_inchi(mapper, connection, target) called again for a
\* stored stationary point, on a connection that is in no transaction: the
\* listener's session begins its own, and its commit and rollback end it.
RerunIdentity(target_id, fp) ==
    /\ target_id \in 1..Len(stationary_point)
    /\ LET h == generate_stationary_inchi(Db, Db, target_id, fp)
       IN  /\ SetDb(h.db)
           /\ last' = [op |-> "rerun", raised |-> "none", res |-> NoResults,
                       fp |-> fp, hookFailed |-> h.failed, hookBegan |-> h.began,
                       hookAddedIdentity |-> h.addedIdentity,
                       target |-> target_id, pre |-> Db,
                       hashed |-> 0, inserted |-> 0]
    /\ UNCHANGED <<nEnergy, nStationary, nUpdates, hashVars, writerVars, created>>

\* Database.close(): engine.dispose() closes the pooled connection.  The
\* store of Spec and GeometrySpec is the in-memory one (the default path, and
\* the store of the tests): its database goes with the connection, and the
\* next connection opens an empty one in which no table was created.  The
\* counts of the rows written start again with the tables.
Close ==
    /\ SetDb(EmptyDb)
    /\ created' = FALSE
    /\ last' = [op |-> "close", raised |-> "none", res |-> NoResults,
                fp |-> "none", hookFailed |-> FALSE, hookBegan |-> FALSE,
                hookAddedIdentity |-> FALSE, target |-> 0, pre |-> Db,
                hashed |-> 0, inserted |-> 0]
    /\ nEnergy' = 0
    /\ nStationary' = 0
    /\ UNCHANGED <<nUpdates, hashVars, writerVars>>

\* The values a stored geometry row's attribute may be set to.
FieldValues(field) ==
    CASE field = "symbols" -> {<<"O", "H", "H">>, <<"H", "H">>}
      [] field = "coordinates" -> {"angA", "angB"}
      [] field = "charge" -> {0, 1}
      [] field = "spin" -> {0, 2}

SetField(row, field, value) ==
    CASE field = "symbols" -> [row EXCEPT !.symbols = value]
      [] field = "coordinates" -> [row EXCEPT !.coordinates = value]
      [] field = "charge" -> [row EXCEPT !.charge = value]
      [] field = "spin" -> [row EXCEPT !.spin = value]

\* A session loads geometry row id, sets one attribute and commits: the flush
\* runs the before_update listeners of GeometryRow and writes the row.
UpdateGeometry(id, field, value) ==
    /\ nUpdates < MaxUpdates
    /\ id \in 1..Len(geometry)
    /\ SetField(geometry[id], field, value) # geometry[id]
    /\ geometry' = [geometry EXCEPT
                       ![id] = GeometryListeners("before_update", SetField(@, field, value))]
    /\ last' = [op |-> "update", raised |-> "none", res |-> NoResults,
                fp |-> "none", hookFailed |-> FALSE, hookBegan |-> FALSE,
                hookAddedIdentity |-> FALSE, target |-> id, pre |-> Db,
                hashed |-> GeometryListenerCalls("before_update"), inserted |-> 0]
    /\ nUpdates' = nUpdates + 1
    /\ UNCHANGED <<calculation, energy, stationary_point, identity,
                   stationary_identity_link, nEnergy, nStationary, hashVars, writerVars, created>>

(***************************************************************************)
(* Calculation specifications and their hashes.                            *)
(*                                                                         *)
(* A value is a string, None or a mapping; a mapping is the sequence of    *)
(* its items [k, v] in insertion order, as a Python dict keeps them.       *)
(***************************************************************************)
Str(s) == [kind |-> "str", s |-> s, m |-> <<>>]
None == [kind |-> "none", s |-> "", m |-> <<>>]
Map(items) == [kind |-> "map", s |-> "", m |-> items]

Keys(items) == {items[i].k : i \in 1..Len(items)}

DistinctKeys(items) == \A i, j \in 1..Len(items) : items[i].k = items[j].k => i = j

\* The position of key k in a mapping that holds it.
IndexOf(items, k) == (CHOOSE i \in 1..Len(items) : items[i].k = k)

\* The value key k holds in a mapping that holds it.
ValueOf(items, k) == items[IndexOf(items, k)].v

\* The names of the model in lexicographic order: the order sorted() puts
\* dictionary keys in.
SortedNames ==
    <<"a", "b", "basis", "c", "d", "e", "extras", "keywords", "method", "program">>

\* The items of a mapping sorted by key.
SortItems(items) ==
    LET present == SelectSeq(SortedNames, LAMBDA n : n \in Keys(items))
    IN  [i \in 1..Len(present) |-> items[IndexOf(items, present[i])]]

\* The canonical form of a value: every mapping's items sorted by key, at
\* every level.
RECURSIVE Canon(_)
Canon(v) ==
    IF v.kind = "map"
    THEN Map(SortItems([i \in 1..Len(v.m) |-> [k |-> v.m[i].k, v |-> Canon(v.m[i].v)]]))
    ELSE v

\* The digest of a serialized dictionary.
Digest(serialized) == <<"sha256", serialized>>

\* util.hash_from_dict: the digest of the dictionary's canonical form.
hash_from_dict(dct) == Digest(Canon(Map(dct)))

\* The fields of Calculation the model keeps, in their declaration order.
FieldOrder == <<"program", "method", "basis", "keywords", "extras">>

FieldValue(calc, name) ==
    CASE name = "program" -> calc.program
      [] name = "method" -> calc.method
      [] name = "basis" -> calc.basis
      [] name = "keywords" -> Map(calc.keywords)
      [] name = "extras" -> Map(calc.extras)

\* calc.model_dump(exclude_none=True, include=include): the fields in
\* declaration order, without those that are None.
model_dump_with_none(calc, include) ==
    LET kept == SelectSeq(FieldOrder, LAMBDA f : f \in include)
    IN  [i \in 1..Len(kept) |-> [k |-> kept[i], v |-> FieldValue(calc, kept[i])]]

model_dump(calc, include) ==
    LET kept == SelectSeq(FieldOrder,
                          LAMBDA f : f \in include /\ FieldValue(calc, f).kind # "none")
    IN  [i \in 1..Len(kept) |-> [k |-> kept[i], v |-> FieldValue(calc, kept[i])]]

\* util.project_keywords: the items of keywords whose key the template has;
\* where both values are mappings, the same one level down.
project_inner(items, template) ==
    SelectSeq(items, LAMBDA it : it.k \in Keys(template))

project_keywords(keywords, template) ==
    LET kept == SelectSeq(keywords, LAMBDA it : it.k \in Keys(template))
    IN  [i \in 1..Len(kept) |->
            LET t == template[IndexOf(template, kept[i].k)].v
            IN  IF kept[i].v.kind = "map" /\ t.kind = "map"
                THEN [k |-> kept[i].k, v |-> Map(project_inner(kept[i].v.m, t.m))]
                ELSE kept[i]]

project_unfiltered(calc, template) ==
    [dict |-> model_dump(calc, template.fields), calc |-> calc]

\* core.project: the dictionary, and calc as the call leaves it (the
\* projected keywords and extras are assigned to calc).
project(calc, template) ==
    LET after == [calc EXCEPT
                    !.keywords = IF "keywords" \in template.fields
                                 THEN project_keywords(@, template.keywords) ELSE @,
                    !.extras = IF "extras" \in template.fields
                               THEN project_keywords(@, template.extras) ELSE @]
    IN  [dict |-> model_dump(after, template.fields), calc |-> after]

projected_hash_unsorted(calc, template) ==
    LET p == project(calc, template)
    IN  [hash |-> Digest(Map(p.dict)), calc |-> p.calc]

\* core.projected_hash: the hash, and calc as the call leaves it.
projected_hash(calc, template) ==
    LET p == project(calc, template)
    IN  [hash |-> hash_from_dict(p.dict), calc |-> p.calc]

\* The built-in schemes. full: the whole specification; minimal: program,
\* method, basis and the keywords of the allowlist.
AllFields == {"program", "method", "basis", "keywords", "extras"}

MinimalAllowlist == <<[k |-> "a", v |-> Str("")]>>

MinimalTemplate ==
    [fields |-> {"program", "method", "basis", "keywords"},
     keywords |-> MinimalAllowlist, extras |-> <<>>]

\* The template of the user-defined scheme of the tests.
UserTemplate ==
    [fields |-> {"program", "method", "keywords"},
     keywords |-> <<[k |-> "a", v |-> Map(<<[k |-> "c", v |-> Str("X")],
                                            [k |-> "d", v |-> Str("Y")]>>)],
                    [k |-> "b", v |-> Map(<<[k |-> "c", v |-> Str("X")]>>)]>>,
     extras |-> <<>>]

\* A template that names extras and allows none of its keys.
ExtrasTemplate ==
    [fields |-> {"method", "basis", "extras"}, keywords |-> <<>>, extras |-> <<>>]

\* The templates project is called with, by name.
TemplateNames == {"minimal_template", "user_template", "extras_template"}

TemplateOf(name) ==
    CASE name = "minimal_template" -> MinimalTemplate
      [] name = "user_template" -> UserTemplate
      [] name = "extras_template" -> ExtrasTemplate

full_hash(calc) == [hash |-> hash_from_dict(model_dump(calc, AllFields)), calc |-> calc]

minimal_hash(calc) == projected_hash(calc, MinimalTemplate)

user_defined_hash_minimal(calc) == projected_hash(calc, MinimalTemplate)

\* The user-defined scheme of the tests.
user_defined_hash(calc) == projected_hash(calc, UserTemplate)

\* The functions a registry may hold, by name.
HashFunctions == {"full_hash", "minimal_hash", "user_defined_hash"}

\* A registered function applied to calc.
ApplyScheme(function, calc) ==
    CASE function = "full_hash" -> full_hash(calc)
      [] function = "minimal_hash" -> minimal_hash(calc)
      [] function = "user_defined_hash" -> user_defined_hash(calc)

(***************************************************************************)
(* The specifications hashed.                                              *)
(***************************************************************************)
Leaves(items) ==
    LET n(v) == IF v.kind = "map" THEN Len(v.m) ELSE 1
    IN  IF Len(items) = 0 THEN 0
        ELSE IF Len(items) = 1 THEN n(items[1].v)
        ELSE n(items[1].v) + n(items[2].v)

ItemSeqs(keys, values) ==
    {<<>>} \cup {<<[k |-> k, v |-> v]>> : k \in keys, v \in values}
    \cup {p \in {<<[k |-> k1, v |-> v1], [k |-> k2, v |-> v2]>> :
                     k1 \in keys, k2 \in keys, v1 \in values, v2 \in values} :
             DistinctKeys(p)}

\* The nested mappings: c holds x, d holds x or y.
NestedMaps ==
    {m \in ItemSeqs({"c", "d"}, {Str("x"), Str("y")}) \ {<<>>} :
        \A i \in 1..Len(m) : m[i].k = "c" => m[i].v = Str("x")}

KeywordValues == {Str("x")} \cup {Map(m) : m \in NestedMaps}

KeywordMaps == {m \in ItemSeqs({"a", "b"}, KeywordValues) : Leaves(m) <= MaxLeaves}

ExtrasMaps == {<<[k |-> "e", v |-> Str("x")]>>}

Calculations ==
    [program : {Str("p")}, method : {Str("m")}, basis : {None, Str("b")},
     keywords : KeywordMaps, extras : ExtrasMaps]

\* What a value holds, whatever the order of its items at any level: its
\* kind, its string, and for a mapping the content under each key.  Two
\* values have the same content exactly when Python finds them equal.
RECURSIVE Content(_)
Content(v) ==
    <<v.kind, v.s,
      IF v.kind = "map"
      THEN {<<v.m[i].k, Content(v.m[i].v)>> : i \in 1..Len(v.m)}
      ELSE {}>>

\* c1 and c2 have the same fields, keys and values.
SameContent(c1, c2) ==
    /\ c1.program = c2.program
    /\ c1.method = c2.method
    /\ c1.basis = c2.basis
    /\ Content(Map(c1.keywords)) = Content(Map(c2.keywords))
    /\ Content(Map(c1.extras)) = Content(Map(c2.extras))

\* c2 is c1 with another value for one keyword that is not on the allowlist
\* of the minimal scheme.
KeywordChange(c1, c2) ==
    /\ c1.program = c2.program
    /\ c1.method = c2.method
    /\ c1.basis = c2.basis
    /\ Content(Map(c1.extras)) = Content(Map(c2.extras))
    /\ Keys(c1.keywords) = Keys(c2.keywords)
    /\ \E k \in Keys(c1.keywords) \ Keys(MinimalAllowlist) :
          /\ Content(c1.keywords[IndexOf(c1.keywords, k)].v)
                # Content(c2.keywords[IndexOf(c2.keywords, k)].v)
          /\ \A l \in Keys(c1.keywords) \ {k} :
                Content(c1.keywords[IndexOf(c1.keywords, l)].v)
                   = Content(c2.keywords[IndexOf(c2.keywords, l)].v)

SchemeNames == {"full", "minimal", "user_defined"}

Reserved == {"full", "minimal"}

BuiltinRegistry == [n \in Reserved |-> IF n = "full" THEN "full_hash" ELSE "minimal_hash"]

NoCalculation ==
    [program |-> Str(""), method |-> Str(""), basis |-> None,
     keywords |-> <<>>, extras |-> <<>>]

NoResult ==
    [done |-> FALSE, name |-> "", scheme |-> "", input |-> NoCalculation,
     hash |-> <<>>, dict |-> <<>>]

\* calculation_hash(calc, name) for object i: the registered function is
\* applied to the object, which it may change.
ComputeHash(i, name) ==
    /\ name \in DOMAIN registry
    /\ LET r == ApplyScheme(registry[name], objs[i])
       IN  /\ results' = [results EXCEPT ![i] =
                             [done |-> TRUE, name |-> name, scheme |-> registry[name],
                              input |-> objs[i], hash |-> r.hash, dict |-> <<>>]]
           /\ objs' = [objs EXCEPT ![i] = r.calc]
    /\ UNCHANGED <<registry, registered, storeVars>>

\* project(calc, template) for object i: the dictionary is kept, and the
\* object is as the call leaves it.
Project(i, templateName) ==
    /\ LET r == project(objs[i], TemplateOf(templateName))
       IN  /\ results' = [results EXCEPT ![i] =
                             [done |-> TRUE, name |-> "project", scheme |-> templateName,
                              input |-> objs[i], hash |-> <<>>, dict |-> r.dict]]
           /\ objs' = [objs EXCEPT ![i] = r.calc]
    /\ UNCHANGED <<registry, registered, storeVars>>

\* Before any register call.
NoRegistration ==
    [outcome |-> "none", name |-> "", function |-> "", overwrite |-> FALSE,
     pre |-> BuiltinRegistry, overwriteRequested |-> FALSE]

Register_unguarded(name, function, overwrite) ==
    /\ registered' = [outcome |-> "ok", name |-> name, function |-> function,
                      overwrite |-> overwrite, pre |-> registry,
                      overwriteRequested |-> registered.overwriteRequested \/ overwrite]
    /\ registry' = [n \in DOMAIN registry \cup {name} |->
                       IF n = name THEN function ELSE registry[n]]
    /\ UNCHANGED <<objs, results, storeVars>>

\* hash_registry.register(name)(function): a reserved name is refused unless
\* the overwrite is explicit.  registered keeps the call, the registry as it
\* was before it, and whether any call so far requested an overwrite.
Register(name, function, overwrite) ==
    /\ IF name \in Reserved /\ ~overwrite
       THEN /\ registered' = [outcome |-> "RegistrationError", name |-> name,
                              function |-> function, overwrite |-> overwrite,
                              pre |-> registry,
                              overwriteRequested |-> registered.overwriteRequested]
            /\ UNCHANGED registry
       ELSE /\ registered' = [outcome |-> "ok", name |-> name, function |-> function,
                              overwrite |-> overwrite, pre |-> registry,
                              overwriteRequested |-> registered.overwriteRequested \/ overwrite]
            /\ registry' = [n \in DOMAIN registry \cup {name} |->
                               IF n = name THEN function ELSE registry[n]]
    /\ UNCHANGED <<objs, results, storeVars>>

(***************************************************************************)
(* Concurrent writers.                                                     *)
(*                                                                         *)
(* Each writer runs write.stationary_point in a session of its own, on a   *)
(* connection of its own to the one SQLite file.  A call is taken one      *)
(* statement at a time.  SQLite lets one transaction write at a time: the  *)
(* first INSERT of a transaction takes the write lock and the COMMIT gives *)
(* it back.  The rows a transaction has inserted are in the tables at      *)
(* once; no other writer reads the tables before it holds the lock itself. *)
(* Database.close() leaves a file and its tables as they are.              *)
(***************************************************************************)
Writers == {1, 2}

\* The results the writers write: the three structures, and a FileInput.
WriterResults == {res \in Results : res.energy = -5}

PipelineStates == <<"geometry-hashed", "stationary-inserted", "identity-resolved", "linked">>

IdleWriter(calls) ==
    [pc |-> "idle", res |-> NoResults, order |-> -1, trace |-> <<>>,
     geometry_id |-> 0, calculation_id |-> 0, stationary_id |-> 0,
     inchi_string |-> "", identity_id |-> 0, link_exists |-> FALSE,
     raised |-> "none", calls |-> calls, began_during |-> 0]

WriterFrame == UNCHANGED <<energy, last, nEnergy, nStationary, nUpdates, created, hashVars>>

WriteLockFree_always(w) == TRUE

\* The write lock is free for writer w: no other transaction holds it.
WriteLockFree(w) == lock \in {0, w}

\* write.stationary_point(res, db, order=order) up to session.add(stp_row):
\* the rows are built; a result that is no ProgramInput raises.  began_during
\* keeps the writer whose transaction was open when the call began.
Call(w, res, order) ==
    /\ writers[w].pc \in {"idle", "done", "failed"}
    /\ writers[w].calls < MaxCalls
    /\ writers' = [writers EXCEPT ![w] =
          IF IsProgramInput(res)
          THEN [IdleWriter(@.calls + 1) EXCEPT !.pc = "added", !.res = res, !.order = order,
                                               !.began_during = lock]
          ELSE [IdleWriter(@.calls + 1) EXCEPT !.pc = "failed", !.res = res, !.order = order,
                                               !.raised = "NotImplementedError"]]
    /\ UNCHANGED <<geometry, calculation, stationary_point, identity,
                   stationary_identity_link, lock>>
    /\ WriterFrame

\* session.commit() begins the flush: the before_insert listener populates
\* the geometry hash, then the geometry and the calculation are inserted.
\* The first INSERT takes the write lock.
FlushParents(w) ==
    /\ writers[w].pc = "added"
    /\ WriteLockFree(w)
    /\ lock' = w
    /\ geometry' = Insert(geometry, GeometryListeners("before_insert",
                                        GeometryRow_from_results(writers[w].res)))
    /\ calculation' = Insert(calculation, CalculationRow_from_results(writers[w].res))
    /\ writers' = [writers EXCEPT ![w].pc = "parents_inserted",
                                  ![w].geometry_id = Len(geometry) + 1,
                                  ![w].calculation_id = Len(calculation) + 1,
                                  ![w].trace = Append(@, "geometry-hashed")]
    /\ UNCHANGED <<stationary_point, identity, stationary_identity_link>>
    /\ WriterFrame

\* The first INSERT finds the write lock held until the busy timeout ends:
\* the commit raises and the session is closed with nothing written.
LockTimeout(w) ==
    /\ writers[w].pc = "added"
    /\ ~WriteLockFree(w)
    /\ writers' = [writers EXCEPT ![w].pc = "failed", ![w].raised = "OperationalError"]
    /\ UNCHANGED <<geometry, calculation, stationary_point, identity,
                   stationary_identity_link, lock>>
    /\ WriterFrame

\* The flush inserts the stationary point, which gets its primary key; the
\* after_insert listener is called next.
InsertStationaryPoint(w) ==
    /\ writers[w].pc = "parents_inserted"
    /\ stationary_point' = Insert(stationary_point,
                                  [geometry_id |-> writers[w].geometry_id,
                                   calculation_id |-> writers[w].calculation_id,
                                   order |-> writers[w].order])
    /\ writers' = [writers EXCEPT ![w].pc = "stationary_inserted",
                                  ![w].stationary_id = Len(stationary_point) + 1,
                                  ![w].trace = Append(@, "stationary-inserted")]
    /\ UNCHANGED <<geometry, calculation, identity, stationary_identity_link, lock>>
    /\ WriterFrame

\* The listener: the InChI of target.geometry, and the identity query.
LookupIdentity(w) ==
    /\ writers[w].pc = "stationary_inserted"
    /\ LET geo_row == geometry[stationary_point[writers[w].stationary_id].geometry_id]
           inchi_string == inchi(geo_row)
       IN  writers' = [writers EXCEPT
                          ![w].pc = "identity_looked_up",
                          ![w].inchi_string = inchi_string,
                          ![w].identity_id = IdentityLookup(identity, "InChI", inchi_string)]
    /\ UNCHANGED <<geometry, calculation, stationary_point, identity,
                   stationary_identity_link, lock>>
    /\ WriterFrame

\* The listener: if the query found no identity, a new row is added and
\* flushed.
ResolveIdentity(w) ==
    /\ writers[w].pc = "identity_looked_up"
    /\ IF writers[w].identity_id = 0
       THEN /\ identity' = Insert(identity, [type |-> "stereoisomer",
                                             algorithm |-> "InChI",
                                             identifier |-> writers[w].inchi_string])
            /\ writers' = [writers EXCEPT ![w].pc = "identity_resolved",
                                          ![w].identity_id = Len(identity) + 1,
                                          ![w].trace = Append(@, "identity-resolved")]
       ELSE /\ writers' = [writers EXCEPT ![w].pc = "identity_resolved",
                                          ![w].trace = Append(@, "identity-resolved")]
            /\ UNCHANGED identity
    /\ UNCHANGED <<geometry, calculation, stationary_point, stationary_identity_link, lock>>
    /\ WriterFrame

\* The listener: the link query.
LookupLink(w) ==
    /\ writers[w].pc = "identity_resolved"
    /\ writers' = [writers EXCEPT
                      ![w].pc = "link_looked_up",
                      ![w].link_exists = LinkExists(stationary_identity_link,
                                                    writers[w].stationary_id,
                                                    writers[w].identity_id)]
    /\ UNCHANGED <<geometry, calculation, stationary_point, identity,
                   stationary_identity_link, lock>>
    /\ WriterFrame

\* The listener: if the query found no link, a new link is added; the
\* listener's session.commit() flushes it.
AddLink(w) ==
    /\ writers[w].pc = "link_looked_up"
    /\ IF writers[w].link_exists
       THEN UNCHANGED stationary_identity_link
       ELSE stationary_identity_link' =
               Insert(stationary_identity_link,
                      [stationary_id |-> writers[w].stationary_id,
                       identity_id |-> writers[w].identity_id])
    /\ writers' = [writers EXCEPT ![w].pc = "linked", ![w].trace = Append(@, "linked")]
    /\ UNCHANGED <<geometry, calculation, stationary_point, identity, lock>>
    /\ WriterFrame

\* The COMMIT of the writer's session: the write lock is given back and
\* write.stationary_point returns.
Commit(w) ==
    /\ writers[w].pc = "linked"
    /\ lock' = 0
    /\ writers' = [writers EXCEPT ![w].pc = "done"]
    /\ UNCHANGED <<geometry, calculation, stationary_point, identity,
                   stationary_identity_link>>
    /\ WriterFrame

WriterNext ==
    \E w \in Writers :
        \/ \E res \in WriterResults, order \in Orders : Call(w, res, order)
        \/ FlushParents(w)
        \/ LockTimeout(w)
        \/ InsertStationaryPoint(w)
        \/ LookupIdentity(w)
        \/ ResolveIdentity(w)
        \/ LookupLink(w)
        \/ AddLink(w)
        \/ Commit(w)

StoreInit ==
    /\ geometry = <<>>
    /\ calculation = <<>>
    /\ energy = <<>>
    /\ stationary_point = <<>>
    /\ identity = <<>>
    /\ stationary_identity_link = <<>>
    /\ last = [op |-> "init", raised |-> "none", res |-> NoResults,
               fp |-> "none", hookFailed |-> FALSE, hookBegan |-> FALSE,
               hookAddedIdentity |-> FALSE, target |-> 0, pre |-> EmptyDb,
               hashed |-> 0, inserted |-> 0]
    /\ nEnergy = 0
    /\ nStationary = 0
    /\ nUpdates = 0
    /\ created = TRUE
    /\ writers = [w \in Writers |-> IdleWriter(0)]
    /\ lock = 0

\* Two specifications: any one, and one with the same content or with one
\* keyword changed.
HashInit ==
    /\ StoreInit
    /\ \E c1 \in Calculations :
          \E c2 \in {c \in Calculations : SameContent(c1, c) \/ KeywordChange(c1, c)} :
              objs = <<c1, c2>>
    /\ results = <<NoResult, NoResult>>
    /\ registry = BuiltinRegistry
    /\ registered = NoRegistration

HashNext ==
    \/ \E i \in 1..2, name \in SchemeNames : ComputeHash(i, name)
    \/ Register("user_defined", "user_defined_hash", FALSE)

HashSpec == HashInit /\ [][HashNext]_vars

\* One specification, constructed twice: the first object is projected and
\* hashed, the second is kept as it was constructed.
ProjectInit ==
    /\ StoreInit
    /\ \E c \in Calculations : objs = <<c, c>>
    /\ results = <<NoResult, NoResult>>
    /\ registry = BuiltinRegistry
    /\ registered = NoRegistration

ProjectNext ==
    \/ \E templateName \in TemplateNames : Project(1, templateName)
    \/ \E name \in SchemeNames : ComputeHash(1, name)
    \/ Register("user_defined", "user_defined_hash", FALSE)

ProjectSpec == ProjectInit /\ [][ProjectNext]_vars

Init ==
    /\ StoreInit
    /\ objs = <<NoCalculation, NoCalculation>>
    /\ results = <<NoResult, NoResult>>
    /\ registry = BuiltinRegistry
    /\ registered = NoRegistration

\* Any sequence of register calls.
RegistryNext ==
    \E name \in SchemeNames, function \in HashFunctions, overwrite \in BOOLEAN :
        Register(name, function, overwrite)

RegistrySpec == Init /\ [][RegistryNext]_vars

WriterSpec == Init /\ [][WriterNext]_vars

Next ==
    \/ \E res \in Results : WriteEnergy(res)
    \/ \E res \in Results, order \in Orders, fp \in FailurePoints :
          WriteStationaryPoint(res, order, fp)
    \/ \E id \in 1..MaxRows, fp \in FailurePoints : RerunIdentity(id, fp)
    \/ Close

Spec == Init /\ [][Next]_vars

\* The writes together with updates of the stored geometry rows.
GeometryNext ==
    \/ \E res \in Results : Len(geometry) < MaxGeometryRows /\ WriteEnergy(res)
    \/ \E res \in Results, order \in Orders, fp \in FailurePoints :
          Len(geometry) < MaxGeometryRows /\ WriteStationaryPoint(res, order, fp)
    \/ \E id \in 1..MaxGeometryRows, field \in {"symbols", "coordinates", "charge", "spin"} :
          \E value \in FieldValues(field) : UpdateGeometry(id, field, value)
    \/ Close

GeometrySpec == Init /\ [][GeometryNext]_vars

(***************************************************************************)
(* Properties of the store.                                                *)
(***************************************************************************)
\* The last call ran the derived-identity pass, for stationary point last.target.
IsPass == last.op \in {"stationary_point", "rerun"} /\ last.target # 0

\* The identities a stationary point is linked to.
LinkedTo(links, stationary_id) ==
    {links[i].identity_id : i \in {k \in 1..Len(links) : links[k].stationary_id = stationary_id}}

\* C1: the identity table never holds two rows with the same (algorithm,
\* identifier); a pass that completes and whose derived identifier was already
\* in the table leaves the identity table as it was and links its stationary
\* point to the row that was there.
C1_IdentityUnique ==
    /\ \A i, j \in 1..Len(identity) :
          (identity[i].algorithm = identity[j].algorithm
           /\ identity[i].identifier = identity[j].identifier) => i = j
    /\ (IsPass /\ ~last.hookFailed /\ ~last.hookAddedIdentity)
          => /\ identity = last.pre.identity
             /\ \E i \in 1..Len(last.pre.identity) :
                   /\ identity[i].identifier =
                         inchi(geometry[stationary_point[last.target].geometry_id])
                   /\ i \in LinkedTo(stationary_identity_link, last.target)
    /\ (IsPass /\ ~last.hookFailed
        /\ \E i \in 1..Len(last.pre.identity) :
              /\ last.pre.identity[i].algorithm = "InChI"
              /\ last.pre.identity[i].identifier =
                    inchi(geometry[stationary_point[last.target].geometry_id]))
          => identity = last.pre.identity

\* Two stationary points written one after the other, the second reusing the
\* identity row of the first.
C1_Witness ==
    /\ last.op = "stationary_point"
    /\ last.raised = "none"
    /\ ~last.hookFailed
    /\ ~last.hookAddedIdentity
    /\ Len(stationary_point) = 2
    /\ Len(identity) = 1
    /\ Len(stationary_identity_link) = 2

\* C2: when the post-insert hook of a write_stationary_point call fails, the
\* call does not raise and the stationary point row it inserted is stored.
C2_PrimaryInsertSurvives ==
    (last.op = "stationary_point" /\ last.hookFailed)
        => /\ last.raised = "none"
           /\ Len(stationary_point) = Len(last.pre.stationary_point) + 1
           /\ stationary_point[Len(stationary_point)].order \in Orders

\* C3: when a pass fails after it has added a new identity row, the identity
\* and link tables are as they were before the pass, and the pass's stationary
\* point is stored with no identity linked to it.
C3_FailedPassLeavesStationaryInserted ==
    (IsPass /\ last.hookFailed /\ last.hookAddedIdentity)
        => /\ identity = last.pre.identity
           /\ stationary_identity_link = last.pre.stationary_identity_link
           /\ last.target \in 1..Len(stationary_point)
           /\ LinkedTo(stationary_identity_link, last.target) = {}

\* C4: the link table holds at most one row for each (stationary_id,
\* identity_id); a pass that is run again for a stationary point already
\* linked to its identity completes and leaves the store as it was.
C4_LinkUnique ==
    /\ \A i, j \in 1..Len(stationary_identity_link) :
          (stationary_identity_link[i].stationary_id =
              stationary_identity_link[j].stationary_id
           /\ stationary_identity_link[i].identity_id =
                 stationary_identity_link[j].identity_id) => i = j
    /\ (last.op = "rerun" /\ last.fp = "none"
        /\ \E k \in LinkedTo(last.pre.stationary_identity_link, last.target) :
              last.pre.identity[k].identifier =
                 inchi(geometry[stationary_point[last.target].geometry_id]))
          => ~last.hookFailed /\ Db = last.pre

\* A pass run again for a stationary point that was already linked.
C4_Witness ==
    /\ last.op = "rerun"
    /\ last.fp = "none"
    /\ ~last.hookFailed
    /\ LinkedTo(last.pre.stationary_identity_link, last.target) # {}
    /\ Len(stationary_identity_link) = 2

\* C5: the energy table holds one row for each write_energy call that
\* returned, the geometry and calculation tables one row for each write call
\* that returned; every energy row refers to a stored geometry and a stored
\* calculation that no other energy row refers to; the row of the last call
\* carries its input's energy and refers to the rows made from its input.
C5_EnergyNoDedup ==
    /\ Len(energy) = nEnergy
    /\ Len(geometry) = nEnergy + nStationary
    /\ Len(calculation) = nEnergy + nStationary
    /\ \A i \in 1..Len(energy) :
          /\ energy[i].geometry_id \in 1..Len(geometry)
          /\ energy[i].calculation_id \in 1..Len(calculation)
          /\ \A j \in 1..Len(energy) :
                (energy[j].geometry_id = energy[i].geometry_id
                 \/ energy[j].calculation_id = energy[i].calculation_id) => i = j
    /\ (last.op = "energy" /\ last.raised = "none")
          => LET e == energy[Len(energy)]
             IN  /\ Len(energy) = Len(last.pre.energy) + 1
                 /\ e.value = last.res.energy
                 /\ e.geometry_id = Len(last.pre.geometry) + 1
                 /\ e.calculation_id = Len(last.pre.calculation) + 1
                 /\ geometry[e.geometry_id].symbols = last.res.structure.symbols
                 /\ calculation[e.calculation_id].method = last.res.method

\* Two write_energy calls with equivalent inputs.
C5_Witness ==
    /\ last.op = "energy"
    /\ nEnergy = 2
    /\ Len(energy) = 2
    /\ geometry[energy[1].geometry_id] = geometry[energy[2].geometry_id]
    /\ energy[1].value = energy[2].value

C7_GeometryHashCurrent ==
    \A i \in 1..Len(geometry) :
        geometry[i].hash = geometry_hash(geometry[i].symbols, geometry[i].coordinates,
                                         geometry[i].charge, geometry[i].spin)

\* C8: a write call whose input_data is no ProgramInput raises
\* NotImplementedError and leaves every table as it was.
C8_UnsupportedInput ==
    (last.op \in {"energy", "stationary_point"} /\ last.res.kind # "ProgramInput")
        => /\ last.raised = "NotImplementedError"
           /\ Db = last.pre

\* A write_stationary_point call with a FileInput on a store that holds rows.
C8_Witness ==
    /\ last.op = "stationary_point"
    /\ last.res.kind = "FileInput"
    /\ last.raised = "NotImplementedError"
    /\ Len(geometry) >= 1
    /\ Len(identity) >= 1

(***************************************************************************)
(* Properties of the concurrent writers.                                   *)
(***************************************************************************)
\* The positions of a call at which the identity query has run.
AfterLookup == {"identity_looked_up", "identity_resolved", "link_looked_up", "linked", "done"}

\* C14: a write_stationary_point call passes the states geometry-hashed,
\* stationary-inserted, identity-resolved, linked in this order; the geometry
\* row has its hash when it is inserted, before the stationary point row is;
\* the identity query runs only once the stationary point has its primary
\* key; when the call returns, the stationary point is linked to exactly one
\* identity row, with type "stereoisomer", algorithm "InChI" and the
\* identifier derived from its geometry.
C14_PipelineOrder ==
    \A w \in Writers :
        LET me == writers[w]
        IN  /\ Len(me.trace) <= Len(PipelineStates)
            /\ \A i \in 1..Len(me.trace) : me.trace[i] = PipelineStates[i]
            /\ Len(me.trace) >= 1 =>
                  LET geo_row == geometry[me.geometry_id]
                  IN  geo_row.hash = geometry_hash(geo_row.symbols, geo_row.coordinates,
                                                   geo_row.charge, geo_row.spin)
            /\ me.stationary_id # 0 =>
                  /\ Len(me.trace) >= 2
                  /\ stationary_point[me.stationary_id].geometry_id = me.geometry_id
            /\ me.pc \in AfterLookup => me.stationary_id \in 1..Len(stationary_point)
            /\ me.pc = "done" =>
                  /\ me.trace = PipelineStates
                  /\ \E i \in 1..Len(identity) :
                        /\ LinkedTo(stationary_identity_link, me.stationary_id) = {i}
                        /\ identity[i] = [type |-> "stereoisomer", algorithm |-> "InChI",
                                          identifier |-> inchi(geometry[me.geometry_id])]
                  /\ Cardinality({k \in 1..Len(stationary_identity_link) :
                                     stationary_identity_link[k].stationary_id
                                        = me.stationary_id}) = 1

\* A call that returned after the other writer's: its stationary point is
\* the second, linked to an identity of its own.
C14_Witness ==
    /\ writers[1].pc = "done"
    /\ writers[2].pc = "done"
    /\ writers[2].stationary_id = 2
    /\ writers[2].trace = PipelineStates
    /\ writers[2].identity_id = 2
    /\ LinkedTo(stationary_identity_link, 2) = {2}

\* C15: with two writers running write_stationary_point at once, in every
\* interleaving of their steps the identity table holds at most one row for
\* an (algorithm, identifier) pair and the link table at most one row for a
\* (stationary point, identity) pair.
C15_ConcurrentWritersUnique ==
    /\ \A i, j \in 1..Len(identity) :
          (identity[i].algorithm = identity[j].algorithm
           /\ identity[i].identifier = identity[j].identifier) => i = j
    /\ \A i, j \in 1..Len(stationary_identity_link) :
          stationary_identity_link[i] = stationary_identity_link[j] => i = j

\* Two calls for two conformations of water, the second begun while the
\* transaction of the first was open: both returned, and both stationary
\* points are linked to the one identity row.
C15_Witness ==
    /\ writers[1].pc = "done"
    /\ writers[2].pc = "done"
    /\ writers[2].began_during = 1
    /\ writers[1].res.structure # writers[2].res.structure
    /\ writers[1].inchi_string = writers[2].inchi_string
    /\ Len(identity) = 1
    /\ LinkedTo(stationary_identity_link, writers[1].stationary_id) = {1}
    /\ LinkedTo(stationary_identity_link, writers[2].stationary_id) = {1}

(***************************************************************************)
(* Properties of the hash schemes.                                         *)
(***************************************************************************)
BothHashed ==
    /\ results[1].done
    /\ results[2].done
    /\ results[1].name # "project"
    /\ results[1].name = results[2].name
    /\ results[1].scheme = results[2].scheme

\* C9: under every registered scheme, two specifications with the same
\* fields, keys and values, whatever the order of their keys at any level,
\* get the same hash.
C9_ReorderSameHash ==
    (BothHashed /\ SameContent(results[1].input, results[2].input))
        => results[1].hash = results[2].hash

\* The user-defined scheme applied to two specifications whose keyword "a"
\* holds the same nested mapping in two orders.
C9_Witness ==
    /\ BothHashed
    /\ results[1].name = "user_defined"
    /\ SameContent(results[1].input, results[2].input)
    /\ "a" \in Keys(results[1].input.keywords)
    /\ results[1].input.keywords[1].v.kind = "map"
    /\ Len(results[1].input.keywords[1].v.m) = 2
    /\ results[1].input.keywords # results[2].input.keywords
    /\ results[1].hash = results[2].hash

\* C10: for two specifications of which the second is the first with another
\* value for one keyword that is not on the minimal scheme's allowlist, the
\* built-in full hashes differ and the built-in minimal hashes are equal.
C10_KeywordChangeHashes ==
    (BothHashed /\ KeywordChange(results[1].input, results[2].input))
        => /\ results[1].scheme = "full_hash" => results[1].hash # results[2].hash
           /\ results[1].scheme = "minimal_hash" => results[1].hash = results[2].hash

\* The minimal hash of two specifications that hold keyword "a" and differ in
\* the value of keyword "b".
C10_Witness ==
    /\ BothHashed
    /\ results[1].scheme = "minimal_hash"
    /\ KeywordChange(results[1].input, results[2].input)
    /\ Keys(results[1].input.keywords) = {"a", "b"}
    /\ results[1].hash = results[2].hash

\* What keywords hold under the keys of an allowlist: for a key of the
\* allowlist, the value, or where the value and the allowlist's are both
\* mappings, the values under the nested keys of the allowlist.
AllowedContent(keywords, allowlist) ==
    UNION {LET v == ValueOf(keywords, k)
               t == ValueOf(allowlist, k)
           IN  IF v.kind = "map" /\ t.kind = "map"
               THEN {<<k, "", Content(Map(<<>>))>>}
                    \cup {<<k, n, Content(ValueOf(v.m, n))>> : n \in Keys(v.m) \cap Keys(t.m)}
               ELSE {<<k, "", Content(v)>>}
           : k \in Keys(keywords) \cap Keys(allowlist)}

\* c1 and c2 differ, and only in keywords outside the allowlist.
DifferOutside(c1, c2, allowlist) ==
    /\ c1.program = c2.program
    /\ c1.method = c2.method
    /\ c1.basis = c2.basis
    /\ Content(Map(c1.extras)) = Content(Map(c2.extras))
    /\ Content(Map(c1.keywords)) # Content(Map(c2.keywords))
    /\ AllowedContent(c1.keywords, allowlist) = AllowedContent(c2.keywords, allowlist)

\* C12: once the user-defined scheme is registered, available() holds its
\* name with full and minimal; the hash computed under the name is the digest
\* of project(spec, template); two specifications that differ only in
\* keywords outside the template's allowlist get the same hash under it.
C12_UserScheme ==
    /\ registered.outcome = "ok" => DOMAIN registry = {"full", "minimal", "user_defined"}
    /\ \A i \in 1..2 :
          (results[i].done /\ results[i].name = "user_defined")
              => /\ registered.outcome = "ok"
                 /\ results[i].hash
                       = hash_from_dict(project(results[i].input, UserTemplate).dict)
    /\ (BothHashed /\ results[1].name = "user_defined"
        /\ DifferOutside(results[1].input, results[2].input, UserTemplate.keywords))
          => results[1].hash = results[2].hash

\* The user-defined scheme applied to two specifications that differ in the
\* nested key "d" of keyword "b", which the template does not hold.
C12_Witness ==
    /\ registered.outcome = "ok"
    /\ BothHashed
    /\ results[1].name = "user_defined"
    /\ DifferOutside(results[1].input, results[2].input, UserTemplate.keywords)
    /\ Keys(results[1].input.keywords) = {"b"}
    /\ results[1].input.keywords[1].v.kind = "map"
    /\ results[2].input.keywords[1].v.kind = "map"
    /\ results[1].hash = results[2].hash

\* C13: a register call with a reserved name (full, minimal) and without an
\* explicit overwrite fails with RegistrationError and leaves the registry as
\* it was; any other register call sets the entry of its name and no other;
\* as long as no call requested an overwrite, full and minimal are bound to
\* their built-in functions.
C13_ReservedNames ==
    /\ registered.outcome # "none" =>
          IF registered.name \in {"full", "minimal"} /\ ~registered.overwrite
          THEN /\ registered.outcome = "RegistrationError"
               /\ registry = registered.pre
          ELSE /\ registered.outcome = "ok"
               /\ DOMAIN registry = DOMAIN registered.pre \cup {registered.name}
               /\ registry[registered.name] = registered.function
               /\ \A n \in DOMAIN registered.pre \ {registered.name} :
                     registry[n] = registered.pre[n]
    /\ ~registered.overwriteRequested =>
          /\ registry["full"] = "full_hash"
          /\ registry["minimal"] = "minimal_hash"

\* A refused registration of "full" after a user scheme was registered and
\* replaced, with no overwrite requested so far.
C13_Witness ==
    /\ registered.outcome = "RegistrationError"
    /\ registered.name = "full"
    /\ registered.function = "user_defined_hash"
    /\ ~registered.overwriteRequested
    /\ "user_defined" \in DOMAIN registry
    /\ registry["user_defined"] = "minimal_hash"
    /\ registry["full"] = "full_hash"

(***************************************************************************)
(* Properties of the projection.                                           *)
(***************************************************************************)
\* out holds the items of mapping from whose key the template mapping has,
\* with the values of from; where the value of from and the value of the
\* template are both mappings, the same holds one level down.
KeptFrom(out, from, template) ==
    /\ DistinctKeys(out)
    /\ Keys(out) = Keys(from) \cap Keys(template)
    /\ \A k \in Keys(out) :
          LET o == ValueOf(out, k)
              v == ValueOf(from, k)
              t == ValueOf(template, k)
          IN  IF v.kind = "map" /\ t.kind = "map"
              THEN /\ o.kind = "map"
                   /\ DistinctKeys(o.m)
                   /\ Keys(o.m) = Keys(v.m) \cap Keys(t.m)
                   /\ \A n \in Keys(o.m) : ValueOf(o.m, n) = ValueOf(v.m, n)
              ELSE o = v

\* The first object was projected last.
Projected == results[1].done /\ results[1].name = "project"

\* C11: the dictionary project returns has for keys the fields of the
\* template whose value in the specification is not None; every value is the
\* specification's; of keywords and extras only the keys the template's
\* mapping also holds are kept, in nested mappings too.
C11_ProjectContents ==
    Projected =>
        LET c == results[1].input
            t == TemplateOf(results[1].scheme)
            d == results[1].dict
        IN  /\ DistinctKeys(d)
            /\ Keys(d) = {f \in t.fields : FieldValue(c, f).kind # "none"}
            /\ \A i \in 1..Len(d) :
                  CASE d[i].k = "keywords" ->
                          d[i].v.kind = "map" /\ KeptFrom(d[i].v.m, c.keywords, t.keywords)
                    [] d[i].k = "extras" ->
                          d[i].v.kind = "map" /\ KeptFrom(d[i].v.m, c.extras, t.extras)
                    [] OTHER -> d[i].v = FieldValue(c, d[i].k)

\* A projection onto the minimal template of a specification without basis
\* whose keyword "b", which the template does not hold, is a nested mapping.
C11_Witness ==
    /\ Projected
    /\ results[1].scheme = "minimal_template"
    /\ results[1].input.basis = None
    /\ Keys(results[1].input.keywords) = {"b"}
    /\ results[1].input.keywords[1].v.kind = "map"
    /\ Keys(results[1].dict) = {"program", "method", "keywords"}
    /\ results[1].dict[3].v = Map(<<>>)

\* C16: project and projected_hash leave the specification passed to them as
\* it was: after a call its keywords and extras are those it had before the
\* call, and after any sequence of projections and hash computations on the
\* first object its full hash is the full hash of the second, which is the
\* specification as it was constructed.
C16_SpecUnchanged ==
    results[1].done =>
        /\ objs[1].keywords = results[1].input.keywords
        /\ objs[1].extras = results[1].input.extras
        /\ full_hash(objs[1]).hash = full_hash(objs[2]).hash

====
